---- MODULE Spec2Model ----
(***************************************************************************)
(* mcpiper: the render / filter / highlight pipeline of                    *)
(* mcrouter/tools/mcpiper/mcpiper.cpp.                                     *)
(*                                                                         *)
(* Text is a sequence of one-character strings; offsets are 0-based as in  *)
(* the C++ (a span (o, l) covers bytes o .. o+l-1, i.e. elements           *)
(* o+1 .. o+l of the sequence).                                            *)
(***************************************************************************)
EXTENDS Naturals, Integers, Sequences, FiniteSets, TLC

VARIABLES
  pc,           \* "main" (before run()), "loop" (evb.loopForever), "exit", "abort"
  exitCode,     \* the process exit status once pc = "exit" (else 0)
  gSettings,    \* Settings: matchExpression, filenamePattern, quiet
  gDataPattern, \* std::unique_ptr<boost::regex>: NullRegex or a compiled pattern
  fifoPattern,  \* the filename pattern moved into FifoReaderManager
  console,      \* what run() prints: banners on std::cout, errors on the log
  sink,         \* gTargetOut: the sequence of write / flush events
  hist,         \* what arrived: one summary per record handed to msgReady
  last,         \* the arguments of the latest msgReady call (NoArrival before)
  out,          \* the StyledString built by the latest msgReady call
  matches,      \* the spans the latest call passed to setFg
  matcherRuns,  \* how many times matchAll ran
  mIn,          \* matchAll on its own: the (text, pattern source) input
  mOut,         \* matchAll on its own: the result, once it has run
  fgBase,       \* setFg on its own: the styled text before any recoloring
  fgCalls,      \* setFg on its own: the calls applied so far, in order
  fgCur         \* setFg on its own: the styled text after fgCalls

vars == <<pc, exitCode, gSettings, gDataPattern, fifoPattern, console, sink, hist,
          last, out, matches, matcherRuns, mIn, mOut, fgBase, fgCalls, fgCur>>

dispatchVars == <<pc, exitCode, gSettings, gDataPattern, fifoPattern, console,
                  sink, hist, last, out, matches, matcherRuns>>
matchVars == <<mIn, mOut>>
fgVars == <<fgBase, fgCalls, fgCur>>

(***************************************************************************)
(* Bounds of the model.                                                    *)
(***************************************************************************)
MaxRecords == 2     \* records handed to msgReady in one run
MaxTextLen == 3     \* length of the texts matchAll is tried on
MaxFgCalls == 2     \* setFg calls applied to one styled text

(***************************************************************************)
(* Helpers on sequences.                                                   *)
(***************************************************************************)
Max(S) == CHOOSE x \in S : \A y \in S : y <= x

\* the element of a one-element set
The(S) == CHOOSE x \in S : TRUE

\* text[o+1 .. o+l], the bytes of span (o, l)
Slice(text, o, l) == SubSeq(text, o + 1, o + l)

\* the 0-based offsets at which the literal string s occurs in text
Occurrences(text, s) ==
  { o \in 0..(Len(text) - Len(s)) : Slice(text, o, Len(s)) = s }

RECURSIVE SeqsUpTo(_, _)
SeqsUpTo(S, n) ==
  IF n = 0 THEN { <<>> }
  ELSE LET shorter == SeqsUpTo(S, n - 1)
       IN  shorter \cup { Append(s, c) : s \in shorter, c \in S }

(***************************************************************************)
(* boost::regex with regex_constants::basic, as far as the patterns of     *)
(* PatChars go: an ordinary character matches itself, "." matches any      *)
(* character, "*" repeats the atom before it (a leading "*" is an ordinary *)
(* character, a "*" after a repeat is error_badrepeat), "[" opens a        *)
(* bracket expression; PatChars holds no "]", so that expression is never  *)
(* closed (error_brack).  A compiled pattern is a sequence of atoms.       *)
(***************************************************************************)
PatChars == { "o", "0", "x", "a", "n", ".", "*", "[" }

Lit(c) == [dot |-> FALSE, ch |-> c, star |-> FALSE]
Dot == [dot |-> TRUE, ch |-> ".", star |-> FALSE]
BadRegex == [ok |-> FALSE, atoms |-> <<>>]

RECURSIVE ParseBasic(_, _, _)
ParseBasic(p, i, atoms) ==
  IF i > Len(p) THEN [ok |-> TRUE, atoms |-> atoms]
  ELSE LET c == p[i]
           n == Len(atoms)
       IN  CASE c = "[" -> BadRegex
             [] c = "*" ->
                  IF n = 0 THEN ParseBasic(p, i + 1, <<Lit(c)>>)
                  ELSE IF atoms[n].star THEN BadRegex
                  ELSE ParseBasic(p, i + 1, [atoms EXCEPT ![n].star = TRUE])
             [] c = "." -> ParseBasic(p, i + 1, Append(atoms, Dot))
             [] OTHER -> ParseBasic(p, i + 1, Append(atoms, Lit(c)))

\* boost::regex(expr, basic): ok = FALSE stands for the exception thrown
Regex(expr) == ParseBasic(expr, 1, <<>>)

\* does atom a accept the byte at 0-based offset q of text
Accepts(a, text, q) == q < Len(text) /\ (a.dot \/ text[q + 1] = a.ch)

\* how many consecutive bytes from offset q atom a accepts: up to the
\* first offset it does not accept (the end of the text at the latest)
RunLen(a, text, q) ==
  LET stops == { r \in q..Len(text) : ~Accepts(a, text, r) }
  IN  (CHOOSE r \in stops : \A r2 \in stops : r <= r2) - q

\* the offsets at which a match of atoms k.. that starts at pos can end
RECURSIVE Ends(_, _, _, _)
Ends(atoms, k, text, pos) ==
  IF k > Len(atoms) THEN { pos }
  ELSE LET a == atoms[k]
       IN  IF a.star
           THEN UNION { Ends(atoms, k + 1, text, pos + m) :
                          m \in 0..RunLen(a, text, pos) }
           ELSE IF Accepts(a, text, pos)
                THEN Ends(atoms, k + 1, text, pos + 1)
                ELSE {}

\* the length of the match at pos (POSIX leftmost-longest), -1 when none
MatchAt(atoms, text, pos) ==
  LET e == Ends(atoms, 1, text, pos)
  IN  IF e = {} THEN -1 ELSE Max(e) - pos

\* The iterator's scan over the start offsets lo .. hi-1, in order.  st is
\* the iterator: from is where the next regex_search starts (the end of the
\* last match), notNull is match_not_initial_null (set after an empty
\* match: an empty match at from is then not accepted).  regex_search tries
\* the offsets from st.from upward and stops at the first that matches;
\* the offsets before st.from lie inside the last match and are not tried.
\* The range is scanned in two halves, the lower half first (bound as the
\* element of a one-element set, so that it is evaluated before the upper
\* half starts and the evaluation nests log2(hi - lo) deep).
ScanAt(atoms, text, p, st) ==
  LET l == MatchAt(atoms, text, p)
  IN  IF /\ p >= st.from
         /\ l >= 0
         /\ ~(st.notNull /\ p = st.from /\ l = 0)
      THEN [spans |-> << <<p, l>> >>,
            st |-> [from |-> p + l, notNull |-> l = 0]]
      ELSE [spans |-> <<>>, st |-> st]

RECURSIVE Scan(_, _, _, _, _)
Scan(atoms, text, lo, hi, st) ==
  IF hi - lo > 1
  THEN LET mid == lo + ((hi - lo) \div 2)
       IN  The(UNION
             { { [spans |-> left.spans \o right.spans, st |-> right.st] :
                   right \in { Scan(atoms, text, mid, hi, left.st) } } :
                 left \in { Scan(atoms, text, lo, mid, st) } })
  ELSE ScanAt(atoms, text, lo, st)

\* sregex_token_iterator it(begin, end, pattern): the first search starts
\* at offset 0 and accepts an empty match
IterStart == [from |-> 0, notNull |-> FALSE]

\* while (it != end) { emplace_back(offset, length); ++it; }: the start
\* offsets run from 0 to Len(text), the end of the text included
MatchIter(atoms, text) ==
  Scan(atoms, text, 0, Len(text) + 1, IterStart).spans

\* matchAll where every span is one byte too long
matchAllTooLong(text, pattern) ==
  LET r == MatchIter(pattern.atoms, text)
  IN  [i \in 1..Len(r) |-> <<r[i][1], r[i][2] + 1>>]

\* matchAll that searches once and never advances the iterator
matchAllFirstOnly(text, pattern) ==
  LET r == MatchIter(pattern.atoms, text)
  IN  IF r = <<>> THEN r ELSE <<r[1]>>

\* matchAll(text, pattern): every match as (index, size), in iterator order
matchAll(text, pattern) == MatchIter(pattern.atoms, text)

(***************************************************************************)
(* StyledString (StyledString.h): text with a foreground color for every   *)
(* byte (a run is a maximal stretch of bytes of one color), and the stack  *)
(* of append colors.  "default" is the color of an append when the stack   *)
(* is empty.                                                               *)
(***************************************************************************)
DefaultColor == "default"

EmptyStyled == [text |-> <<>>, fg |-> <<>>, stack |-> <<>>]

\* StyledString::text(): the bytes, no style
Text(s) == s.text

\* the foreground color of every byte, in order
FgOf(s) == s.fg

\* the color an append without a color argument uses
CurColor(s) ==
  IF s.stack = <<>> THEN DefaultColor ELSE s.stack[Len(s.stack)]

\* append(str, color)
AppendC(s, str, color) ==
  [s EXCEPT !.text = @ \o str,
            !.fg = @ \o [i \in 1..Len(str) |-> color]]

\* append(str): the color on top of the stack
AppendS(s, str) == AppendC(s, str, CurColor(s))

\* pushBack(c)
PushBack(s, c) == AppendS(s, <<c>>)

\* append(StyledString): the bytes of t, with their own colors
AppendStyled(s, t) ==
  [s EXCEPT !.text = @ \o t.text, !.fg = @ \o t.fg]

PushAppendColor(s, color) == [s EXCEPT !.stack = Append(@, color)]

PopAppendColor(s) == [s EXCEPT !.stack = SubSeq(@, 1, Len(@) - 1)]

\* setFg's precondition: the range lies within the text
FgRangeOk(s, off, len) == off + len <= Len(s.text)

\* len bytes of one color
Colored(len, color) == [i \in 1..len |-> color]

\* setFg that recolors one byte less than asked
SetFgShort(s, off, len, color) ==
  [s EXCEPT !.fg = SubSeq(@, 1, off)
                   \o Colored(IF len > 0 THEN len - 1 ELSE 0, color)
                   \o SubSeq(@, off + (IF len > 0 THEN len ELSE 1), Len(@))]

\* setFg(off, len, color), for a range within the text: the bytes before
\* the range, the range in the color, the bytes after it
SetFg(s, off, len, color) ==
  [s EXCEPT !.fg = SubSeq(@, 1, off) \o Colored(len, color)
                   \o SubSeq(@, off + len + 1, Len(@))]

\* for (auto& m : matches) out.setFg(m.first, m.second, color), for the
\* spans ms[lo] .. ms[hi] in order: the lower half of the calls first, then
\* the upper half on what they leave
RECURSIVE SetFgEach(_, _, _, _, _)
SetFgEach(s, ms, lo, hi, color) ==
  IF lo > hi THEN s
  ELSE IF lo = hi THEN SetFg(s, ms[lo][1], ms[lo][2], color)
  ELSE LET mid == lo + ((hi - lo) \div 2)
       IN  The({ SetFgEach(t, ms, mid + 1, hi, color) :
                   t \in { SetFgEach(s, ms, lo, mid, color) } })

SetFgAll(s, ms, color) == SetFgEach(s, ms, 1, Len(ms), color)

(***************************************************************************)
(* The text fragments msgReady appends, and the formatting it calls.       *)
(***************************************************************************)
sOpen == <<"{", "\n">>
sIndent == <<" ", " ">>
sReqid == <<"\n", " ", " ", "r", "e", "q", "i", "d", ":", " ">>
sHexPrefix == <<"0", "x">>
sFlags == <<"\n", " ", " ", "f", "l", "a", "g", "s", ":", " ">>
sListOpen == <<" ", "[">>
sListSep == <<",", " ">>
sExptime == <<"\n", " ", " ", "e", "x", "p", "t", "i", "m", "e", ":", " ">>
sValueSize ==
  <<" ", " ", "v", "a", "l", "u", "e", " ", "s", "i", "z", "e", ":", " ">>
sUncompressed ==
  <<" ", "u", "n", "c", "o", "m", "p", "r", "e", "s", "s", "e", "d", ",",
    " ">>
sCompressed ==
  <<" ", "c", "o", "m", "p", "r", "e", "s", "s", "e", "d", ",", " ">>
sSavings == <<"%", " ", "s", "a", "v", "i", "n", "g", "s">>
sValue == <<"\n", " ", " ", "v", "a", "l", "u", "e", ":", " ">>
sClose == <<"}", "\n">>

HexDigits ==
  <<"0", "1", "2", "3", "4", "5", "6", "7", "8", "9", "a", "b", "c", "d", "e", "f">>

\* the digits of n in the given base, most significant first
RECURSIVE Digits(_, _)
Digits(n, base) ==
  IF n < base THEN <<HexDigits[n + 1]>>
  ELSE Append(Digits(n \div base, base), HexDigits[(n % base) + 1])

\* folly::sformat("0x{:x}", n)
FormatHex(n) == sHexPrefix \o Digits(n, 16)

\* folly::to<std::string>(n), folly::format("{:d}", n)
FormatDec(n) == Digits(n, 10)

\* "{:.2f}" of 100.0 - 100.0 * size / uncompressed, for size <= uncompressed:
\* the value in hundredths, rounded to nearest
FormatSavings(size, uncompressed) ==
  LET h == (2 * 10000 * (uncompressed - size) + uncompressed)
             \div (2 * uncompressed)
      frac == h % 100
  IN  FormatDec(h \div 100) \o <<".">>
      \o <<HexDigits[(frac \div 10) + 1], HexDigits[(frac % 10) + 1]>>

\* folly::backslashify on the bytes the keys of this model hold: a newline
\* and a backslash are escaped, a printable byte is kept
RECURSIVE backslashify(_)
backslashify(str) ==
  IF str = <<>> THEN <<>>
  ELSE (CASE Head(str) = "\n" -> <<"\\", "n">>
          [] Head(str) = "\\" -> <<"\\", "\\">>
          [] OTHER -> <<Head(str)>>)
       \o backslashify(Tail(str))

(***************************************************************************)
(* Records (mc_msg_t), the value formatter's answer, and the names the     *)
(* collaborators of mcpiper.cpp give to operations, results and flags.     *)
(***************************************************************************)
kFoo == <<"f", "o", "o">>

Ops == { "mc_op_unknown", "mc_op_end", "mc_op_get", "mc_op_set" }
Results == { "mc_res_unknown", "mc_res_found" }
Keys == { <<>>, kFoo, <<"o", "*">> }

mc_op_to_string(op) ==
  CASE op = "mc_op_get" -> <<"g", "e", "t">>
    [] op = "mc_op_set" -> <<"s", "e", "t">>
    [] op = "mc_op_end" -> <<"e", "n", "d">>
    [] OTHER -> <<"u", "n", "k", "n", "o", "w", "n">>

mc_res_to_string(res) ==
  CASE res = "mc_res_found" ->
         <<"m", "c", "_", "r", "e", "s", "_", "f", "o", "u", "n", "d">>
    [] OTHER ->
         <<"m", "c", "_", "r", "e", "s", "_", "u", "n", "k", "n", "o", "w", "n">>

\* describeFlags: one name per recognized set bit, lowest bit first; the
\* bits above the two recognized ones give no entry
describeFlags(flags) ==
  (IF flags % 2 = 1 THEN << <<"p", "h", "p">> >> ELSE <<>>)
  \o (IF (flags \div 2) % 2 = 1 THEN << <<"g", "z">> >> ELSE <<>>)

\* PrettyFormat: the colors of kFormat
dataOpColor == "dataOpColor"
headerColor == "headerColor"
msgAttrColor == "msgAttrColor"
dataValueColor == "dataValueColor"
attrColor == "attrColor"
matchColor == "matchColor"

Msg(op, result, key, flags, exptime, value) ==
  [op |-> op, result |-> result, key |-> key, flags |-> flags,
   exptime |-> exptime, value |-> value]

\* what uncompressAndFormat answers for a value: the size it reports and
\* the styled body; NoFormat when the value is empty and it is not called
NoFormat == [usize |-> 0, body |-> EmptyStyled]

Formats(value) ==
  IF value = <<>> THEN { NoFormat }
  ELSE { [usize |-> Len(value),
          body |-> AppendC(EmptyStyled, value, dataValueColor)],
         [usize |-> 2 * Len(value),
          body |-> AppendC(EmptyStyled, value \o value, dataValueColor)] }

\* the records delivered: every header combination, the attribute
\* combinations, a key with a byte that is escaped, and the value cases
HeaderMsgs ==
  { Msg(op, res, key, 0, 0, <<>>) : op \in Ops, res \in Results, key \in Keys }
AttrMsgs ==
  { Msg("mc_op_set", "mc_res_unknown", kFoo, f, e, <<>>) :
      f \in {0, 1, 3, 4}, e \in {0, 60} }
  \cup { Msg("mc_op_get", "mc_res_unknown", <<"\\", "\n">>, 0, 0, <<>>) }
ValueMsgs ==
  { Msg("mc_op_get", "mc_res_found", <<>>, 0, 0, v) :
      v \in { <<"o">>, <<"x", "y">> } }

Arrivals ==
  { [reqid |-> 1, msg |-> m, fmt |-> NoFormat] : m \in HeaderMsgs }
  \cup { [reqid |-> 171, msg |-> m, fmt |-> NoFormat] : m \in AttrMsgs }
  \cup UNION { { [reqid |-> 16, msg |-> m, fmt |-> f] : f \in Formats(m.value) } :
                 m \in ValueMsgs }

NoArrival == [reqid |-> 0, msg |-> Msg("mc_op_unknown", "mc_res_unknown",
                                       <<>>, 0, 0, <<>>), fmt |-> NoFormat]

(***************************************************************************)
(* serializeMessageHeader                                                  *)
(***************************************************************************)
\* the header with the fields run together, no separating space
serializeMessageHeaderNoSpace(msg) ==
  (IF msg.op # "mc_op_unknown" THEN mc_op_to_string(msg.op) ELSE <<>>)
  \o (IF msg.result # "mc_res_unknown" THEN mc_res_to_string(msg.result)
      ELSE <<>>)
  \o (IF Len(msg.key) # 0 THEN backslashify(msg.key) ELSE <<>>)

serializeMessageHeader(msg) ==
  LET out1 == IF msg.op # "mc_op_unknown" THEN mc_op_to_string(msg.op)
              ELSE <<>>
      out2 == IF msg.result # "mc_res_unknown"
              THEN (IF Len(out1) > 0 THEN Append(out1, " ") ELSE out1)
                   \o mc_res_to_string(msg.result)
              ELSE out1
      out3 == IF Len(msg.key) # 0
              THEN (IF Len(out2) > 0 THEN Append(out2, " ") ELSE out2)
                   \o backslashify(msg.key)
              ELSE out2
  IN  out3

(***************************************************************************)
(* msgReady: the rendering of one record                                   *)
(***************************************************************************)
\* "{\n" and the header line
RenderHeader(s, msg) ==
  LET s1 == AppendC(s, sOpen, dataOpColor)
      msgHeader == serializeMessageHeader(msg)
  IN  IF msgHeader # <<>>
      THEN AppendC(AppendS(s1, sIndent), msgHeader, headerColor)
      ELSE s1

\* the flag descriptions, joined by ", "
RECURSIVE AppendDescs(_, _, _)
AppendDescs(s, flagDesc, first) ==
  IF flagDesc = <<>> THEN s
  ELSE AppendDescs(AppendS(IF ~first THEN AppendS(s, sListSep) ELSE s,
                           Head(flagDesc)),
                   Tail(flagDesc), FALSE)

\* reqid, flags (with their descriptions), exptime, and the newline
RenderAttrs(s, reqid, msg) ==
  LET s1 == AppendC(s, sReqid, msgAttrColor)
      s2 == AppendC(s1, FormatHex(reqid), dataValueColor)
      s3 == AppendC(s2, sFlags, msgAttrColor)
      s4 == AppendC(s3, FormatHex(msg.flags), dataValueColor)
      flagDesc == describeFlags(msg.flags)
      s5 == IF msg.flags # 0 /\ flagDesc # <<>>
            THEN PopAppendColor(
                   PushBack(
                     AppendDescs(AppendS(PushAppendColor(s4, attrColor),
                                         sListOpen),
                                 flagDesc, TRUE),
                     "]"))
            ELSE s4
      s6 == IF msg.exptime # 0
            THEN AppendC(AppendC(s5, sExptime, msgAttrColor),
                         FormatDec(msg.exptime), dataValueColor)
            ELSE s5
  IN  PushBack(s6, "\n")

\* the value block that appends the body whatever gSettings.quiet says
RenderValueLoud(s, msg, fmt, quiet) ==
  IF Len(msg.value) # 0
  THEN LET s1 == AppendC(s, sValueSize, msgAttrColor)
           s2 == AppendC(s1, FormatDec(Len(msg.value)), dataValueColor)
           s3 == AppendStyled(AppendC(s2, sValue, msgAttrColor), fmt.body)
       IN  PushBack(s3, "\n")
  ELSE s

\* the value size line and, unless quiet, the value line
RenderValue(s, msg, fmt, quiet) ==
  IF Len(msg.value) # 0
  THEN LET size == Len(msg.value)
           s1 == AppendC(s, sValueSize, msgAttrColor)
           s2 == IF fmt.usize # size
                 THEN AppendC(s1,
                              FormatDec(fmt.usize) \o sUncompressed
                              \o FormatDec(size) \o sCompressed
                              \o FormatSavings(size, fmt.usize) \o sSavings,
                              dataValueColor)
                 ELSE AppendC(s1, FormatDec(size), dataValueColor)
           s3 == IF ~quiet
                 THEN AppendStyled(AppendC(s2, sValue, msgAttrColor), fmt.body)
                 ELSE s2
       IN  PushBack(s3, "\n")
  ELSE s

\* the StyledString out as it stands before the pattern is looked at
Render(reqid, msg, fmt, quiet) ==
  AppendC(RenderValue(RenderAttrs(RenderHeader(EmptyStyled, msg), reqid, msg),
                      msg, fmt, quiet),
          sClose, dataOpColor)

(***************************************************************************)
(* msgReady: filtering, highlighting and emission                          *)
(***************************************************************************)
NullRegex == [ptr |-> FALSE, atoms |-> <<>>]
RegexPtr(re) == [ptr |-> TRUE, atoms |-> re.atoms]

\* the spans of ms up to and including the first one setFg rejects
PassedToSetFg(s, ms) ==
  LET bad == { i \in 1..Len(ms) : ~FgRangeOk(s, ms[i][1], ms[i][2]) }
  IN  IF bad = {} THEN ms
      ELSE SubSeq(ms, 1, CHOOSE i \in bad : \A j \in bad : i <= j)

Kept(s, ran, spans) ==
  [keep |-> TRUE, abort |-> FALSE, ran |-> ran, spans |-> spans, out |-> s]
Dropped(s, ran) ==
  [keep |-> FALSE, abort |-> FALSE, ran |-> ran, spans |-> <<>>, out |-> s]

\* the filter that writes a record whose text has no match
FilterKeepUnmatched(s, pattern) ==
  IF pattern.ptr
  THEN The({ Kept(SetFgAll(s, ms, matchColor), TRUE, ms) :
               ms \in { matchAll(Text(s), pattern) } })
  ELSE Kept(s, FALSE, <<>>)

\* the filter that keeps a matching record and recolors nothing
FilterNoHighlight(s, pattern) ==
  IF pattern.ptr
  THEN IF matchAll(Text(s), pattern) = <<>> THEN Dropped(s, TRUE)
       ELSE Kept(s, TRUE, <<>>)
  ELSE Kept(s, FALSE, <<>>)

\* the filtering, with the matches ms already computed
FilterWith(s, ms) ==
  LET passed == PassedToSetFg(s, ms)
  IN  IF ms = <<>> THEN Dropped(s, TRUE)
      ELSE IF passed # ms
                \/ ~FgRangeOk(s, ms[Len(ms)][1], ms[Len(ms)][2])
           THEN [keep |-> FALSE, abort |-> TRUE, ran |-> TRUE,
                 spans |-> passed, out |-> s]
           ELSE Kept(SetFgAll(s, ms, matchColor), TRUE, ms)

\* if (gDataPattern) { matchAll; return when empty; setFg every match }
\* setFg stops the process at a span that is out of range
Filter(s, pattern) ==
  IF pattern.ptr
  THEN The({ FilterWith(s, ms) : ms \in { matchAll(Text(s), pattern) } })
  ELSE Kept(s, FALSE, <<>>)

\* the emission that leaves the block in the stream's buffer
EmitNoFlush(n) == << [ev |-> "write", rec |-> n] >>

\* gTargetOut << out; gTargetOut.flush();  for the n-th record
Emit(n) == << [ev |-> "write", rec |-> n], [ev |-> "flush", rec |-> n] >>

\* msgReady from the finished StyledString on: lines 245-256
FilterAndEmit(s, pattern, n) ==
  The({ [out |-> f.out, ran |-> f.ran, spans |-> f.spans, abort |-> f.abort,
         events |-> IF f.keep THEN Emit(n) ELSE <<>>] :
          f \in { Filter(s, pattern) } })

\* msgReady(reqid, msg) as the n-th call, under gSettings.quiet and
\* gDataPattern: the StyledString built, whether matchAll ran, the spans
\* handed to setFg, whether setFg's check failed, and what the sink received
msgReady(reqid, msg, fmt, quiet, pattern, n) ==
  IF msg.op = "mc_op_end"
  THEN [out |-> EmptyStyled, ran |-> FALSE, spans |-> <<>>, abort |-> FALSE,
        events |-> <<>>]
  ELSE The({ FilterAndEmit(s, pattern, n) :
               s \in { Render(reqid, msg, fmt, quiet) } })

(***************************************************************************)
(* run(): the two patterns are built before the event loop                 *)
(***************************************************************************)
Built(re) == [exit |-> FALSE, re |-> re]
ExitOne == [exit |-> TRUE, re |-> NullRegex]

\* buildFilenameRegex: exit(1) when the pattern does not compile
buildFilenameRegex(settings) ==
  IF settings.filenamePattern # <<>>
  THEN LET re == Regex(settings.filenamePattern)
       IN  IF re.ok THEN Built(RegexPtr(re)) ELSE ExitOne
  ELSE Built(NullRegex)

\* buildDataRegex that compiles the empty expression into a pattern
buildDataRegexAlways(settings) ==
  LET re == Regex(settings.matchExpression)
  IN  IF re.ok THEN Built(RegexPtr(re)) ELSE ExitOne

\* buildDataRegex that goes on without a pattern when it does not compile
buildDataRegexNoExit(settings) ==
  IF settings.matchExpression # <<>>
  THEN LET re == Regex(settings.matchExpression)
       IN  IF re.ok THEN Built(RegexPtr(re)) ELSE Built(NullRegex)
  ELSE Built(NullRegex)

\* buildDataRegex: null for the empty expression (match everything),
\* exit(1) when the pattern does not compile
buildDataRegex(settings) ==
  IF settings.matchExpression # <<>>
  THEN LET re == Regex(settings.matchExpression)
       IN  IF re.ok THEN Built(RegexPtr(re)) ELSE ExitOne
  ELSE Built(NullRegex)

(***************************************************************************)
(* The process: main() calls run(), which builds the patterns and enters   *)
(* the event loop; the loop hands records to msgReady one at a time.       *)
(***************************************************************************)
DataPatterns ==
  { <<>>, <<"o">>, <<"o", "o">>, <<"0", "x">>, <<"o", "*">>, <<".">>, <<"[">> }
FilePatterns == { <<>>, <<"o">>, <<"[">> }

SettingsSet ==
  { [matchExpression |-> m, filenamePattern |-> f, quiet |-> q] :
      m \in DataPatterns, f \in FilePatterns, q \in BOOLEAN }

NotRun == [done |-> FALSE, spans |-> <<>>]
IdleMatch == mIn = [text |-> <<>>, expr |-> <<>>] /\ mOut = NotRun
IdleFg == fgBase = EmptyStyled /\ fgCalls = <<>> /\ fgCur = EmptyStyled

\* the process before run(): nothing printed, nothing received
Startup ==
  /\ pc = "main"
  /\ exitCode = 0
  /\ gDataPattern = NullRegex
  /\ fifoPattern = NullRegex
  /\ console = <<>>
  /\ sink = <<>>
  /\ hist = <<>>
  /\ last = NoArrival
  /\ out = EmptyStyled
  /\ matches = <<>>
  /\ matcherRuns = 0

Init ==
  /\ gSettings \in SettingsSet
  /\ Startup
  /\ IdleMatch
  /\ IdleFg

\* run() up to evb.loopForever()
Run ==
  /\ pc = "main"
  /\ LET fr == buildFilenameRegex(gSettings)
         c1 == IF fr.re.ptr THEN Append(console, "cout: Filename pattern")
               ELSE console
         dr == buildDataRegex(gSettings)
     IN  IF fr.exit
         THEN /\ pc' = "exit"
              /\ exitCode' = 1
              /\ console' = Append(console, "log: Invalid filename pattern")
              /\ UNCHANGED <<gDataPattern, fifoPattern>>
         ELSE IF dr.exit
         THEN /\ pc' = "exit"
              /\ exitCode' = 1
              /\ console' = Append(c1, "log: Invalid pattern")
              /\ UNCHANGED <<gDataPattern, fifoPattern>>
         ELSE /\ pc' = "loop"
              /\ exitCode' = exitCode
              /\ gDataPattern' = dr.re
              /\ fifoPattern' = fr.re
              /\ console' = IF dr.re.ptr
                            THEN Append(c1, "cout: Data pattern")
                            ELSE c1
  /\ UNCHANGED <<gSettings, sink, hist, last, out, matches, matcherRuns>>
  /\ UNCHANGED <<matchVars, fgVars>>

\* does the pattern occur anywhere in text
HasMatch(pattern, text) ==
  \E p \in 0..Len(text) : Ends(pattern.atoms, 1, text, p) # {}

\* what arrived, for the record: was it the end record, and does a
\* configured pattern occur in the block a record like it renders to
Summary(a) ==
  [end |-> a.msg.op = "mc_op_end",
   hit |-> /\ a.msg.op # "mc_op_end"
           /\ gDataPattern.ptr
           /\ \E s \in { Render(a.reqid, a.msg, a.fmt, gSettings.quiet) } :
                 HasMatch(gDataPattern, Text(s))]

\* the event loop delivers record a to msgReady
MsgReady(a) ==
  /\ pc = "loop"
  /\ Len(hist) < MaxRecords
  /\ \E r \in { msgReady(a.reqid, a.msg, a.fmt, gSettings.quiet,
                         gDataPattern, Len(hist) + 1) } :
       /\ out' = r.out
       /\ matches' = r.spans
       /\ matcherRuns' = matcherRuns + (IF r.ran THEN 1 ELSE 0)
       /\ sink' = sink \o r.events
       /\ pc' = IF r.abort THEN "abort" ELSE pc
  /\ last' = a
  /\ hist' = Append(hist, Summary(a))
  /\ UNCHANGED <<exitCode, gSettings, gDataPattern, fifoPattern, console>>
  /\ UNCHANGED <<matchVars, fgVars>>

Deliver == \E a \in Arrivals : MsgReady(a)

Next == Run \/ Deliver

Spec == Init /\ [][Next]_vars

(***************************************************************************)
(* matchAll on its own: a text and a pattern are drawn, matchAll is called *)
(***************************************************************************)
kBanana == <<"b", "a", "n", "a", "n", "a">>

MatchTexts == SeqsUpTo({ "a", "n" }, MaxTextLen) \cup { kBanana }

\* the non-empty expressions of up to two characters that compile
MatchExprs ==
  { e \in SeqsUpTo({ "a", "n", ".", "*" }, 2) : e # <<>> /\ Regex(e).ok }

DefaultSettings ==
  [matchExpression |-> <<>>, filenamePattern |-> <<>>, quiet |-> FALSE]

InitMatch ==
  /\ mIn \in { [text |-> t, expr |-> e] : t \in MatchTexts, e \in MatchExprs }
  /\ mOut = NotRun
  /\ gSettings = DefaultSettings
  /\ Startup
  /\ IdleFg

MatchAllCall ==
  /\ ~mOut.done
  /\ mOut' = [done |-> TRUE,
              spans |-> matchAll(mIn.text, RegexPtr(Regex(mIn.expr)))]
  /\ UNCHANGED <<mIn, dispatchVars, fgVars>>

SpecMatch == InitMatch /\ [][MatchAllCall]_vars

(***************************************************************************)
(* setFg on its own: a styled text is drawn and recolored call by call     *)
(***************************************************************************)
kAbcd == <<"a", "b", "c", "d">>

FgBases ==
  { AppendC(EmptyStyled, kAbcd, dataOpColor),
    AppendC(AppendC(EmptyStyled, <<"a", "b">>, headerColor),
            <<"c", "d">>, dataValueColor),
    AppendC(AppendS(AppendC(EmptyStyled, <<"a">>, msgAttrColor),
                    <<"b", "c">>),
            <<"d">>, attrColor) }

FgColors == { matchColor, attrColor }

InitFg ==
  /\ fgBase \in FgBases
  /\ fgCalls = <<>>
  /\ fgCur = fgBase
  /\ gSettings = DefaultSettings
  /\ Startup
  /\ IdleMatch

\* one setFg(off, len, color) whose range lies within the text
SetFgCall(off, len, color) ==
  /\ Len(fgCalls) < MaxFgCalls
  /\ FgRangeOk(fgCur, off, len)
  /\ fgCur' = SetFg(fgCur, off, len, color)
  /\ fgCalls' = Append(fgCalls, [off |-> off, len |-> len, color |-> color])
  /\ UNCHANGED <<fgBase, dispatchVars, matchVars>>

Recolor ==
  \E off \in 0..Len(Text(fgCur)), len \in 0..Len(Text(fgCur)),
     color \in FgColors : SetFgCall(off, len, color)

SpecFg == InitFg /\ [][Recolor]_vars

(***************************************************************************)
(* Properties                                                              *)
(***************************************************************************)
\* the events the sink received for the i-th record
EventsOf(i) == { j \in 1..Len(sink) : sink[j].rec = i }
WritesOf(i) == { j \in EventsOf(i) : sink[j].ev = "write" }
Writes == { j \in 1..Len(sink) : sink[j].ev = "write" }

\* the latest record was rendered (it was not the end record)
LastRendered == Len(hist) > 0 /\ last.msg.op # "mc_op_end"
LastKept == WritesOf(Len(hist)) # {}

\* the i-th record is one the filter has to drop
MustDrop(i) == hist[i].end \/ (gDataPattern.ptr /\ ~hist[i].hit)

\* C1: a record that is the end record, or that has no match of the
\* configured content pattern in its rendered text, leaves the sink
\* untouched: the sink holds no write, no flush, nothing for it.
C1_DroppedNeverReachesSink ==
  \A i \in 1..Len(hist) : MustDrop(i) => EventsOf(i) = {}

\* a record without a match was dropped after one that was written
C1_Witness ==
  /\ Len(hist) = 2
  /\ gDataPattern.ptr
  /\ ~hist[2].end /\ ~hist[2].hit
  /\ hist[1].hit
  /\ EventsOf(1) # {}
  /\ EventsOf(2) = {}

\* C2: the sink received exactly one write for every record that is not
\* the end record and that arrived with no pattern configured or has a
\* match, and none for any other; with no content pattern configured
\* matchAll never runs and no span is recolored: what is written is the
\* block as rendered.
C2_WritesCountKept ==
  /\ Cardinality(Writes)
       = Cardinality({ i \in 1..Len(hist) :
                         ~hist[i].end /\ (~gDataPattern.ptr \/ hist[i].hit) })
  /\ \A i \in 1..Len(hist) :
       (~hist[i].end /\ (~gDataPattern.ptr \/ hist[i].hit))
         => Cardinality(WritesOf(i)) = 1
  /\ gSettings.matchExpression = <<>>
       => /\ matcherRuns = 0
          /\ matches = <<>>
          /\ \A i \in 1..Len(hist) :
               ~hist[i].end => Cardinality(WritesOf(i)) = 1
          /\ LastRendered
               => out = Render(last.reqid, last.msg, last.fmt, gSettings.quiet)

\* no pattern configured: of two records the end record was dropped and
\* the other written
C2_Witness ==
  /\ gSettings.matchExpression = <<>>
  /\ Len(hist) = 2
  /\ hist[1].end /\ ~hist[2].end
  /\ Cardinality(Writes) = 1
  /\ matcherRuns = 0

\* C3: in the sink every write is followed at once by the flush of the
\* same record, every flush follows the write of its record at once, and
\* a record is written at most once: one flush per write, before anything
\* of a later record.
C3_WriteThenFlush ==
  /\ \A j \in 1..Len(sink) :
       sink[j].ev = "write"
         => /\ j < Len(sink)
            /\ sink[j + 1] = [ev |-> "flush", rec |-> sink[j].rec]
  /\ \A j \in 1..Len(sink) :
       sink[j].ev = "flush"
         => /\ j > 1
            /\ sink[j - 1] = [ev |-> "write", rec |-> sink[j].rec]
  /\ \A i \in 1..Len(hist) : Cardinality(WritesOf(i)) <= 1
  /\ \A j, k \in 1..Len(sink) : j < k => sink[j].rec <= sink[k].rec

\* two records were written
C3_Witness == Cardinality(Writes) = 2 /\ Len(sink) = 4

\* the characters that regex_constants::basic does not take literally
BreSpecial == { ".", "[", "\\", "*", "^", "$" }
IsLiteral(S) == S # <<>> /\ \A i \in 1..Len(S) : S[i] \notin BreSpecial

\* a span handed to setFg covers an occurrence of S in the block exactly,
\* and the bytes of that span are in the match color
ExactSpan(S) ==
  \E i \in 1..Len(matches) :
    /\ matches[i][2] = Len(S)
    /\ matches[i][1] \in Occurrences(Text(out), S)
    /\ \A b \in (matches[i][1] + 1)..(matches[i][1] + Len(S)) :
         FgOf(out)[b] = matchColor

\* the latest record was rendered under the content pattern S, and the
\* text of its block contains S
ContainsPattern(S) ==
  /\ LastRendered
  /\ S # <<>>
  /\ Occurrences(Text(out), S) # {}

\* C4 as stated: whenever the block's text contains the configured
\* pattern S as a substring, the record is written and some recolored span
\* covers an occurrence of S exactly.
C4_AnySubstringHighlighted ==
  ContainsPattern(gSettings.matchExpression)
    => LastKept /\ ExactSpan(gSettings.matchExpression)

\* C4, for patterns the regex syntax takes literally: whenever the
\* block's text contains the configured pattern S, and S is not empty and
\* has none of the characters . [ \ * ^ $, the record is written and some
\* span recolored to the match color covers an occurrence of S exactly.
C4_LiteralHighlighted ==
  (ContainsPattern(gSettings.matchExpression)
     /\ IsLiteral(gSettings.matchExpression))
    => LastKept /\ ExactSpan(gSettings.matchExpression)

\* the pattern "oo" was found in the header of a written record
C4_Witness ==
  /\ gSettings.matchExpression = <<"o", "o">>
  /\ ContainsPattern(gSettings.matchExpression)
  /\ last.msg.key = kFoo
  /\ LastKept
  /\ ExactSpan(gSettings.matchExpression)

\* the fields of the header that are present, in the order op, result, key
PresentFields(msg) ==
  (IF msg.op # "mc_op_unknown" THEN << mc_op_to_string(msg.op) >> ELSE <<>>)
  \o (IF msg.result # "mc_res_unknown"
      THEN << mc_res_to_string(msg.result) >> ELSE <<>>)
  \o (IF msg.key # <<>> THEN << backslashify(msg.key) >> ELSE <<>>)

\* the strings of fs with one space between neighbours
RECURSIVE JoinSpace(_)
JoinSpace(fs) ==
  IF fs = <<>> THEN <<>>
  ELSE IF Len(fs) = 1 THEN fs[1]
  ELSE fs[1] \o <<" ">> \o JoinSpace(Tail(fs))

IsPrefix(p, t) == Len(p) <= Len(t) /\ SubSeq(t, 1, Len(p)) = p

kExampleBlock ==
  <<"{", "\n",
    " ", " ", "s", "e", "t", " ", "f", "o", "o", "\n",
    " ", " ", "r", "e", "q", "i", "d", ":", " ", "0", "x", "1", "\n",
    " ", " ", "f", "l", "a", "g", "s", ":", " ", "0", "x", "0", "\n",
    "}", "\n">>

IsExample(a) ==
  /\ a.reqid = 1
  /\ a.msg = Msg("mc_op_set", "mc_res_unknown", kFoo, 0, 0, <<>>)

\* C5: the block of every rendered record starts with "{\n", then, when
\* any of op, result, key is present, two spaces and the present fields in
\* that order with exactly one space between neighbours and none before or
\* after, then the reqid line; with no field present the reqid line comes
\* right after "{\n".  The record {reqid 1, set, result unknown, key foo,
\* flags 0, no exptime, no value} renders as
\* "{\n  set foo\n  reqid: 0x1\n  flags: 0x0\n}\n".
C5_HeaderJoinedBySpace ==
  LastRendered =>
    LET h == JoinSpace(PresentFields(last.msg))
    IN  /\ IsPrefix(sOpen \o (IF h # <<>> THEN sIndent \o h ELSE <<>>)
                     \o sReqid,
                     Text(out))
        /\ serializeMessageHeader(last.msg) = h
        /\ IsExample(last) => Text(out) = kExampleBlock

\* the example record was rendered as the second of two records
C5_Witness ==
  /\ Len(hist) = 2
  /\ IsExample(last)
  /\ Text(out) = kExampleBlock

\* the block up to and including the newline that ends the attribute lines
AttrPart(a) ==
  Text(RenderAttrs(RenderHeader(EmptyStyled, a.msg), a.reqid, a.msg))

\* the text after "  value size: ": the size, or both sizes and the savings
SizeText(a) ==
  IF a.fmt.usize # Len(a.msg.value)
  THEN FormatDec(a.fmt.usize) \o sUncompressed
       \o FormatDec(Len(a.msg.value)) \o sCompressed
       \o FormatSavings(Len(a.msg.value), a.fmt.usize) \o sSavings
  ELSE FormatDec(Len(a.msg.value))

\* C6: with quiet set, the block of a record with a non-empty value is
\* the attribute lines, the value size line and the closing brace, with no
\* value line and no body; without quiet the value line and the
\* formatter's body follow the value size line; a record without a value
\* has neither line.
C6_QuietKeepsSizeDropsValue ==
  LastRendered =>
    IF last.msg.value = <<>>
    THEN Text(out) = AttrPart(last) \o sClose
    ELSE IF gSettings.quiet
    THEN /\ Text(out) = AttrPart(last) \o sValueSize \o SizeText(last)
                        \o <<"\n">> \o sClose
         /\ Occurrences(Text(out), sValue) = {}
    ELSE Text(out) = AttrPart(last) \o sValueSize \o SizeText(last)
                     \o sValue \o Text(last.fmt.body) \o <<"\n">> \o sClose

\* a compressed value was rendered under quiet: the size line is there,
\* the value line is not
C6_Witness ==
  /\ gSettings.quiet
  /\ LastRendered
  /\ last.msg.value # <<>>
  /\ last.fmt.usize # Len(last.msg.value)
  /\ Occurrences(Text(out), sValueSize) # {}
  /\ Occurrences(Text(out), sValue) = {}
  /\ LastKept

\* a configured pattern that boost::regex does not compile
CompileFails(expr) == expr # <<>> /\ ~Regex(expr).ok
ErrorLogs == { "log: Invalid filename pattern", "log: Invalid pattern" }

\* C7: when the content pattern or the filename pattern does not
\* compile, the process never enters the event loop, no record is handed
\* to msgReady and the sink receives nothing; once run() is over the
\* process has logged the error and exited with a non-zero code.
C7_BadPatternIsFatal ==
  /\ (CompileFails(gSettings.matchExpression)
        \/ CompileFails(gSettings.filenamePattern))
       => /\ pc \in { "main", "exit" }
          /\ hist = <<>>
          /\ sink = <<>>
          /\ matcherRuns = 0
  /\ pc = "exit"
       => /\ exitCode # 0
          /\ console # <<>>
          /\ console[Len(console)] \in ErrorLogs
          /\ (CompileFails(gSettings.matchExpression)
                \/ CompileFails(gSettings.filenamePattern))
  /\ pc = "loop" => exitCode = 0

\* the filename pattern compiled and was announced, the content pattern
\* did not compile: the process exited with code 1
C7_Witness ==
  /\ pc = "exit"
  /\ exitCode = 1
  /\ CompileFails(gSettings.matchExpression)
  /\ ~CompileFails(gSettings.filenamePattern)
  /\ console = <<"cout: Filename pattern", "log: Invalid pattern">>
  /\ sink = <<>>

\* the calls cs applied in order to the styled text s
RECURSIVE Replay(_, _)
Replay(s, cs) ==
  IF cs = <<>> THEN s
  ELSE Replay(SetFg(s, cs[1].off, cs[1].len, cs[1].color), Tail(cs))

\* the 1-based positions of the bytes setFg call c recolors
RangeOf(c) == (c.off + 1)..(c.off + c.len)
Disjoint(c, d) == RangeOf(c) \cap RangeOf(d) = {}

\* the styled text the latest call was applied to, and the one before it
BeforeLast == Replay(fgBase, SubSeq(fgCalls, 1, Len(fgCalls) - 1))
BeforeLastTwo == Replay(fgBase, SubSeq(fgCalls, 1, Len(fgCalls) - 2))

\* C8: after any sequence of setFg calls the text is the one appended;
\* the bytes of the latest call's range have its color (so the latest call
\* wins where ranges overlap) and every byte outside it keeps the color it
\* had; a call repeated with the same arguments changes nothing; the
\* latest two calls, when their ranges do not overlap, give the same colors
\* applied in the other order.
C8_SetFgAlgebra ==
  /\ Text(fgCur) = Text(fgBase)
  /\ Len(FgOf(fgCur)) = Len(Text(fgCur))
  /\ Len(fgCalls) >= 1 =>
       LET c == fgCalls[Len(fgCalls)]
       IN  /\ \A b \in RangeOf(c) : FgOf(fgCur)[b] = c.color
           /\ \A b \in (1..Len(Text(fgCur))) \ RangeOf(c) :
                FgOf(fgCur)[b] = FgOf(BeforeLast)[b]
           /\ SetFg(fgCur, c.off, c.len, c.color) = fgCur
  /\ Len(fgCalls) >= 2 =>
       LET c == fgCalls[Len(fgCalls)]
           d == fgCalls[Len(fgCalls) - 1]
       IN  /\ c = d => fgCur = BeforeLast
           /\ Disjoint(c, d) =>
                fgCur = SetFg(SetFg(BeforeLastTwo, c.off, c.len, c.color),
                              d.off, d.len, d.color)

\* two overlapping calls with different colors: the second has its whole
\* range, the first keeps the byte the second did not touch
C8_Witness ==
  /\ fgCalls = << [off |-> 0, len |-> 2, color |-> matchColor],
                  [off |-> 1, len |-> 2, color |-> attrColor] >>
  /\ FgOf(fgCur)[1] = matchColor
  /\ FgOf(fgCur)[2] = attrColor
  /\ FgOf(fgCur)[3] = attrColor
  /\ FgOf(fgCur)[4] = FgOf(fgBase)[4]

\* matchAll's input and answer
MText == mIn.text
MAtoms == Regex(mIn.expr).atoms
MSpans == mOut.spans
SpanEnd(i) == MSpans[i][1] + MSpans[i][2]

\* the offsets of MText where some match of the pattern starts
MatchStarts == { p \in 0..Len(MText) : Ends(MAtoms, 1, MText, p) # {} }

\* C9: the spans matchAll returns are occurrences of the pattern, each
\* starting at or after the end of the one before it and strictly to its
\* right; no occurrence is left out (every offset where the pattern
\* matches is the start of a span or lies inside one); the list is empty
\* exactly when the pattern occurs nowhere; "a" in "banana" gives
\* (1,1), (3,1), (5,1).
C9_MatchAllLeftToRight ==
  mOut.done =>
    /\ \A i \in 1..Len(MSpans) :
         SpanEnd(i) \in Ends(MAtoms, 1, MText, MSpans[i][1])
    /\ \A i \in 1..(Len(MSpans) - 1) :
         /\ SpanEnd(i) <= MSpans[i + 1][1]
         /\ MSpans[i][1] < MSpans[i + 1][1]
    /\ \A p \in MatchStarts :
         \E i \in 1..Len(MSpans) :
           \/ MSpans[i][1] = p
           \/ MSpans[i][1] < p /\ p < SpanEnd(i)
    /\ (MSpans = <<>>) <=> (MatchStarts = {})
    /\ (MText = kBanana /\ mIn.expr = <<"a">>)
         => MSpans = << <<1, 1>>, <<3, 1>>, <<5, 1>> >>

\* "a" was searched in "banana" and three spans came back
C9_Witness ==
  /\ mOut.done
  /\ MText = kBanana
  /\ mIn.expr = <<"a">>
  /\ Len(MSpans) = 3

\* C10: every span msgReady hands to setFg ends within the text of the
\* block it recolors, and setFg's range check never stops the process.
C10_SpansInRange ==
  /\ pc # "abort"
  /\ \A i \in 1..Len(matches) :
       matches[i][1] + matches[i][2] <= Len(Text(out))
  /\ Len(FgOf(out)) = Len(Text(out))

\* a pattern that matches the empty string gave an empty span at the very
\* end of the block, and the block was written
C10_Witness ==
  /\ LastKept
  /\ matches # <<>>
  /\ matches[Len(matches)] = <<Len(Text(out)), 0>>
  /\ \E i \in 1..Len(matches) : matches[i][2] > 0

====
